---- MODULE Spec2Model ----
(***************************************************************************)
(* Bitbucket Cloud pull request resources                                  *)
(* (atlassian/bitbucket/cloud/repositories/pullRequests.py).               *)
(*                                                                         *)
(* PullRequest is a mirror of one JSON payload plus a URL; its guarded     *)
(* actions are a precondition check followed by one POST or DELETE.        *)
(* PullRequests is the collection: get(id) and the paged generator each(). *)
(*                                                                         *)
(* Python values are tagged records so that None, booleans, integers and   *)
(* strings stay distinct, and truthiness ("x or y") is computed as Python  *)
(* computes it.  A dict is a function whose DOMAIN is its key set, so      *)
(* "key in data" is DOMAIN membership.                                     *)
(***************************************************************************)
EXTENDS Integers, Sequences, FiniteSets, TLC

VARIABLES pr, call, ncalls, closed, gen

vars == <<pr, call, ncalls, closed, gen>>

-----------------------------------------------------------------------------
(* Bounds *)

MaxId == 2

MaxCalls == 3

MaxPages == 2

MaxPageLen == 1

-----------------------------------------------------------------------------
(* Python values *)

None == [t |-> "None"]

Str(s) == [t |-> "str", v |-> s]

Bool(b) == [t |-> "bool", v |-> b]

PyInt(n) == [t |-> "int", v |-> n]

Dict(d) == [t |-> "dict", v |-> d]

True == Bool(TRUE)

False == Bool(FALSE)

\* bool(x): None, False, 0, "" and {} are falsy, everything else is truthy
Truthy(x) ==
    CASE x.t = "None" -> FALSE
      [] x.t = "bool" -> x.v
      [] x.t = "int"  -> x.v # 0
      [] x.t = "str"  -> x.v # ""
      [] x.t = "dict" -> DOMAIN x.v # {}
      [] OTHER        -> TRUE

\* x or y
PyOr(x, y) == IF Truthy(x) THEN x ELSE y

\* str(x) of the values that are joined into URLs
PyStr(x) ==
    CASE x.t = "int" -> ToString(x.v)
      [] x.t = "str" -> x.v
      [] OTHER       -> x.t

\* Outcome of a call: a returned value or a raised exception, with the HTTP
\* requests the call sent.
Return(value, sent) == [outcome |-> "returned", value |-> value, sent |-> sent]

Raise(exc, sent) == [outcome |-> "raised", value |-> [t |-> "exc", v |-> exc], sent |-> sent]

-----------------------------------------------------------------------------
(* PullRequest class constants *)

MERGE_COMMIT == Str("merge_commit")

MERGE_SQUASH == Str("squash")

MERGE_FF == Str("fast_forward")

\* Mutant: a strategy dropped from the list
MERGE_STRATEGIES_short == <<MERGE_COMMIT, MERGE_SQUASH>>

MERGE_STRATEGIES == <<MERGE_COMMIT, MERGE_SQUASH, MERGE_FF>>

STATE_OPEN == Str("OPEN")

STATE_DECLINED == Str("DECLINED")

STATE_MERGED == Str("MERGED")

STATE_SUPERSEDED == Str("SUPERSEDED")

\* x in list
InList(x, list) == \E i \in 1..Len(list) : list[i] = x

-----------------------------------------------------------------------------
(* Payloads the server can deliver *)

Ids == 1..MaxId

Absent == [t |-> "absent"]

\* "state" of a payload: the four documented states, two undocumented
\* values, or no "state" key at all
StateVals == {STATE_OPEN, STATE_DECLINED, STATE_MERGED, STATE_SUPERSEDED,
              Str("DRAFT"), Str("open"), Absent}

CsbVals == {True, False, Absent}

\* A pull request JSON object; a field given as Absent is a missing key.
Payload(id, st, csb) ==
    LET full == [k \in {"id", "state", "close_source_branch"} |->
                    CASE k = "id" -> PyInt(id)
                      [] k = "state" -> st
                      [] OTHER -> csb]
        keys == {k \in DOMAIN full : full[k] # Absent}
    IN  [k \in keys |-> full[k]]

Payloads == {Payload(id, st, csb) : id \in Ids, st \in StateVals, csb \in CsbVals}

\* The error document the server answers with instead of a resource
ErrorPayload == [errors |-> Str("not found")]

\* URL of the PullRequests collection, as path segments
CollectionUrl == <<"repositories", "ws", "repo", "pullrequests">>

-----------------------------------------------------------------------------
(* BitbucketCloudBase: the shared base class *)

\* url_joiner(url, path): "/".join(str(s) for s in [url, path])
url_joiner(url, path) == Append(url, PyStr(path))

\* get_data(id): the payload's field, None when the key is missing
get_data(self, key) == IF key \in DOMAIN self.data THEN self.data[key] ELSE None

\* What the transport can answer to a request: a JSON body or an HTTP error
HttpReplies == {[ok |-> TRUE, body |-> None],
                [ok |-> TRUE, body |-> Dict([type |-> Str("pullrequest")])],
                [ok |-> FALSE, body |-> None]}

Request(verb, self, path, data) ==
    [verb |-> verb, url |-> url_joiner(self.url, Str(path)), path |-> path, data |-> data]

\* post(path, data=None) / delete(path): one request; the reply's body is
\* returned, an HTTP error is raised
post(self, path, data, reply) ==
    IF reply.ok THEN Return(reply.body, <<Request("POST", self, path, data)>>)
    ELSE Raise("HTTPError", <<Request("POST", self, path, data)>>)

delete(self, path, reply) ==
    IF reply.ok THEN Return(reply.body, <<Request("DELETE", self, path, None)>>)
    ELSE Raise("HTTPError", <<Request("DELETE", self, path, None)>>)

-----------------------------------------------------------------------------
(* class PullRequest *)

\* PullRequest.__init__(url, data)
PullRequest(url, data) == [cls |-> "PullRequest", url |-> url, data |-> data]

is_declined(self) == get_data(self, "state") = STATE_DECLINED

is_merged(self) == get_data(self, "state") = STATE_MERGED

is_open(self) == get_data(self, "state") = STATE_OPEN

\* Mutant: the comparison copied from is_merged
is_superseded_copied(self) == get_data(self, "state") = STATE_MERGED

is_superseded(self) == get_data(self, "state") = STATE_SUPERSEDED

close_source_branch(self) == get_data(self, "close_source_branch")

\* Mutant: a guard that rejects only declined and merged pull requests
check_if_open_terminal(self) ==
    IF is_declined(self) \/ is_merged(self) THEN Raise("Pull Request isn't open", <<>>)
    ELSE Return(None, <<>>)

check_if_open(self) ==
    IF ~is_open(self) THEN Raise("Pull Request isn't open", <<>>)
    ELSE Return(None, <<>>)

approve(self, reply) ==
    LET g == check_if_open(self)
    IN  IF g.outcome = "raised" THEN g
        ELSE post(self, "approve", Dict([approved |-> True]), reply)

\* Mutant: the verb copied from approve
unapprove_post(self, reply) ==
    LET g == check_if_open(self)
    IN  IF g.outcome = "raised" THEN g
        ELSE post(self, "approve", None, reply)

unapprove(self, reply) ==
    LET g == check_if_open(self)
    IN  IF g.outcome = "raised" THEN g
        ELSE delete(self, "approve", reply)

request_changes(self, reply) ==
    LET g == check_if_open(self)
    IN  IF g.outcome = "raised" THEN g
        ELSE post(self, "request-changes", Dict("request-changes" :> True), reply)

unrequest_changes(self, reply) ==
    LET g == check_if_open(self)
    IN  IF g.outcome = "raised" THEN g
        ELSE delete(self, "request-changes", reply)

decline(self, reply) ==
    LET g == check_if_open(self)
    IN  IF g.outcome = "raised" THEN g
        ELSE post(self, "decline", None, reply)

merge(self, merge_strategy, csb, reply) ==
    LET g == check_if_open(self)
    IN  IF g.outcome = "raised" THEN g
        ELSE IF merge_strategy # None /\ ~InList(merge_strategy, MERGE_STRATEGIES)
             THEN Raise("ValueError", <<>>)
        ELSE post(self, "merge",
                  Dict([close_source_branch |-> PyOr(csb, close_source_branch(self)),
                        merge_strategy |-> merge_strategy]),
                  reply)

-----------------------------------------------------------------------------
(* Arguments callers pass *)

MergeStrategyArgs == {None, MERGE_COMMIT, MERGE_SQUASH, MERGE_FF,
                      Str("rebase"), Str("")}

CsbArgs == {None, True, False}

NoReply == [ok |-> TRUE, body |-> None]

NoCall == [op |-> "none", args |-> <<>>, reply |-> NoReply, res |-> Return(None, <<>>)]

\* The record of one finished call on the object
Called(op, args, reply, res) == [op |-> op, args |-> args, reply |-> reply, res |-> res]

\* A decline or merge that returned normally
Closes(op, res) == op \in {"decline", "merge"} /\ res.outcome = "returned"

\* Mutant: a decline or merge that returned rewrites the payload's state
Finish_updating(op, args, reply, res) ==
    /\ ncalls < MaxCalls
    /\ call' = Called(op, args, reply, res)
    /\ ncalls' = ncalls + 1
    /\ closed' = (closed \/ Closes(op, res))
    /\ pr' = IF Closes(op, res)
             THEN [pr EXCEPT !.data = [k \in DOMAIN @ |->
                        IF k = "state"
                        THEN IF op = "merge" THEN STATE_MERGED ELSE STATE_DECLINED
                        ELSE @[k]]]
             ELSE pr
    /\ UNCHANGED gen

Finish(op, args, reply, res) ==
    /\ ncalls < MaxCalls
    /\ call' = Called(op, args, reply, res)
    /\ ncalls' = ncalls + 1
    /\ closed' = (closed \/ Closes(op, res))
    /\ UNCHANGED <<pr, gen>>

Approve == \E reply \in HttpReplies : Finish("approve", <<>>, reply, approve(pr, reply))

Unapprove == \E reply \in HttpReplies : Finish("unapprove", <<>>, reply, unapprove(pr, reply))

RequestChanges ==
    \E reply \in HttpReplies : Finish("request_changes", <<>>, reply, request_changes(pr, reply))

UnrequestChanges ==
    \E reply \in HttpReplies : Finish("unrequest_changes", <<>>, reply, unrequest_changes(pr, reply))

Decline == \E reply \in HttpReplies : Finish("decline", <<>>, reply, decline(pr, reply))

Merge ==
    \E reply \in HttpReplies, s \in MergeStrategyArgs, c \in CsbArgs :
        Finish("merge", <<s, c>>, reply, merge(pr, s, c, reply))

\* Reading the four state properties of the object
ReadState ==
    Finish("state", <<>>, NoReply,
           Return(Dict([is_open |-> Bool(is_open(pr)),
                        is_declined |-> Bool(is_declined(pr)),
                        is_merged |-> Bool(is_merged(pr)),
                        is_superseded |-> Bool(is_superseded(pr))]), <<>>))

\* No generator has been created
GenIdle == [status |-> "idle", q |-> None, sort |-> None, params |-> <<>>,
            more |-> FALSE, npages |-> 0, buffer |-> <<>>, delivered |-> <<>>,
            yielded |-> <<>>]

Init ==
    /\ pr \in {PullRequest(url_joiner(CollectionUrl, d["id"]), d) : d \in Payloads}
    /\ call = NoCall
    /\ ncalls = 0
    /\ closed = FALSE
    /\ gen = GenIdle

Next ==
    \/ Approve
    \/ Unapprove
    \/ RequestChanges
    \/ UnrequestChanges
    \/ Decline
    \/ Merge
    \/ ReadState

Spec == Init /\ [][Next]_vars

-----------------------------------------------------------------------------
(* class PullRequests *)

\* The collection object
PullRequests(url) == [cls |-> "PullRequests", url |-> url]

\* Pull requests as the server lists them
Listed == {Payload(id, STATE_OPEN, Absent) : id \in Ids}

\* The pull request with a given id as the server serves it
Served(id) == {Payload(id, st, Absent) : st \in {STATE_OPEN, STATE_MERGED}}

\* The pages of a listing: up to MaxPageLen items each
Pages == UNION {[1..n -> Listed] : n \in 0..MaxPageLen}

\* Answers of the server to GET <collection>/<id>: the resource with that
\* id, an error document, or an HTTP error
GetReplies(id) ==
    {[ok |-> TRUE, body |-> d] : d \in Served(id) \cup {ErrorPayload}}
        \cup {[ok |-> FALSE, body |-> None]}

\* BitbucketCloudBase.get(path): one GET, the JSON body returned
base_get(self, path, reply) ==
    IF reply.ok THEN Return(reply.body, <<Request("GET", self, PyStr(path), None)>>)
    ELSE Raise("HTTPError", <<Request("GET", self, PyStr(path), None)>>)

\* Mutant: the object built without looking for "errors"
get_object_unchecked(self, data) ==
    IF "id" \notin DOMAIN data THEN Raise("KeyError", <<>>)
    ELSE Return(PullRequest(url_joiner(self.url, data["id"]), data), <<>>)

\* PullRequests.__get_object(data)
get_object(self, data) ==
    IF "errors" \in DOMAIN data THEN Return(None, <<>>)
    ELSE IF "id" \notin DOMAIN data THEN Raise("KeyError", <<>>)
    ELSE Return(PullRequest(url_joiner(self.url, data["id"]), data), <<>>)

\* PullRequests.get(id)
get(self, id, reply) ==
    LET r == base_get(self, id, reply)
    IN  IF r.outcome = "raised" THEN r
        ELSE LET o == get_object(self, r.value)
             IN  [o EXCEPT !.sent = r.sent]

\* Mutant: a parameter is kept only when it is truthy
each_params_truthy(q, sort) ==
    LET arg == [k \in {"sort", "q"} |-> IF k = "sort" THEN sort ELSE q]
    IN  [k \in {k \in DOMAIN arg : Truthy(arg[k])} |-> arg[k]]

\* PullRequests.each: the params dict built from q and sort
each_params(q, sort) ==
    LET arg == [k \in {"sort", "q"} |-> IF k = "sort" THEN sort ELSE q]
    IN  [k \in {k \in DOMAIN arg : arg[k] # None} |-> arg[k]]

QueryArgs == {None, Str("")}

SortArgs == {None, Str("-updated_on")}

\* The id of pull request i as callers pass it: an int or its decimal string
IdArgs(i) == {PyInt(i), Str(ToString(i))}

Self == PullRequests(CollectionUrl)

\* prs.get(id)
Get ==
    \E i \in Ids : \E id \in IdArgs(i), reply \in GetReplies(i) :
        /\ call' = Called("get", <<id>>, reply, get(Self, id, reply))
        /\ UNCHANGED <<pr, ncalls, closed, gen>>

\* prs.each(q, sort): a new generator, nothing fetched yet
Each ==
    \E q \in QueryArgs, sort \in SortArgs :
        /\ gen' = [GenIdle EXCEPT !.status = "running", !.q = q, !.sort = sort,
                                  !.params = each_params(q, sort), !.more = TRUE]
        /\ UNCHANGED <<pr, call, ncalls, closed>>

\* _get_paged: the next page of the listing arrives, with or without a
\* link to a further page
EachFetch ==
    /\ gen.status = "running"
    /\ gen.buffer = <<>>
    /\ gen.more
    /\ gen.npages < MaxPages
    /\ \E page \in Pages, more \in BOOLEAN :
        /\ more => gen.npages + 1 < MaxPages
        /\ gen' = [gen EXCEPT !.buffer = page, !.delivered = @ \o page,
                              !.more = more, !.npages = @ + 1]
    /\ UNCHANGED <<pr, call, ncalls, closed>>

\* for pr in self._get_paged(...): yield self.__get_object(pr)
EachYield ==
    /\ gen.status = "running"
    /\ gen.buffer # <<>>
    /\ LET o == get_object(Self, Head(gen.buffer))
       IN  IF o.outcome = "raised"
           THEN gen' = [gen EXCEPT !.status = "raised", !.buffer = <<>>]
           ELSE gen' = [gen EXCEPT !.buffer = Tail(@), !.yielded = Append(@, o.value)]
    /\ UNCHANGED <<pr, call, ncalls, closed>>

\* the listing is exhausted: the generator returns
EachStop ==
    /\ gen.status = "running"
    /\ gen.buffer = <<>>
    /\ ~gen.more
    /\ gen' = [gen EXCEPT !.status = "done"]
    /\ UNCHANGED <<pr, call, ncalls, closed>>

InitPullRequests ==
    /\ pr = None
    /\ call = NoCall
    /\ ncalls = 0
    /\ closed = FALSE
    /\ gen = GenIdle

NextPullRequests ==
    \/ Get
    \/ Each
    \/ EachFetch
    \/ EachYield
    \/ EachStop

SpecPullRequests == InitPullRequests /\ [][NextPullRequests]_vars

-----------------------------------------------------------------------------
(* Properties of the PullRequest resource, checked under Spec *)

GuardedOps == {"approve", "unapprove", "request_changes", "unrequest_changes",
               "decline", "merge"}

\* The payload's "state" is the string "OPEN"
PayloadOpen == "state" \in DOMAIN pr.data /\ pr.data["state"] = [t |-> "str", v |-> "OPEN"]

NotOpenError == [outcome |-> "raised",
                 value |-> [t |-> "exc", v |-> "Pull Request isn't open"],
                 sent |-> <<>>]

\* C1: on a pull request whose payload state is not "OPEN" (another state or
\* no state at all) every guarded action raises "Pull Request isn't open"
\* and sends no HTTP request.
C1_NotOpenRaisesAndSendsNothing ==
    (call.op \in GuardedOps /\ ~PayloadOpen) => call.res = NotOpenError

C1_Witness ==
    /\ call.op = "merge"
    /\ "state" \notin DOMAIN pr.data
    /\ call.res.outcome = "raised"
    /\ call.res.sent = <<>>

\* Verb, sub-path and body of each guarded action's endpoint
Endpoint(op) ==
    CASE op = "approve" ->
            [verb |-> "POST", path |-> "approve",
             data |-> [t |-> "dict", v |-> [approved |-> [t |-> "bool", v |-> TRUE]]]]
      [] op = "unapprove" ->
            [verb |-> "DELETE", path |-> "approve", data |-> [t |-> "None"]]
      [] op = "request_changes" ->
            [verb |-> "POST", path |-> "request-changes",
             data |-> [t |-> "dict", v |-> ("request-changes" :> [t |-> "bool", v |-> TRUE])]]
      [] op = "unrequest_changes" ->
            [verb |-> "DELETE", path |-> "request-changes", data |-> [t |-> "None"]]
      [] op = "decline" ->
            [verb |-> "POST", path |-> "decline", data |-> [t |-> "None"]]

AcceptedStrategies == {[t |-> "None"], [t |-> "str", v |-> "merge_commit"],
                       [t |-> "str", v |-> "squash"], [t |-> "str", v |-> "fast_forward"]}

\* The call's outcome is the outcome of the request it sent
ResultOfRequest ==
    IF call.reply.ok
    THEN call.res.outcome = "returned" /\ call.res.value = call.reply.body
    ELSE call.res.outcome = "raised" /\ call.res.value = [t |-> "exc", v |-> "HTTPError"]

\* C2: on an OPEN pull request each guarded action sends exactly one request,
\* with the verb, sub-path (under the object's URL) and body of its endpoint,
\* and its result is that request's result; merge with an accepted strategy
\* sends one POST "merge".
C2_OpenSendsOneRequest ==
    (call.op \in GuardedOps /\ PayloadOpen) =>
        IF call.op = "merge"
        THEN call.args[1] \in AcceptedStrategies =>
                /\ Len(call.res.sent) = 1
                /\ call.res.sent[1].verb = "POST"
                /\ call.res.sent[1].path = "merge"
                /\ call.res.sent[1].url = pr.url \o <<"merge">>
                /\ ResultOfRequest
        ELSE /\ call.res.sent =
                    <<[verb |-> Endpoint(call.op).verb,
                       url  |-> pr.url \o <<Endpoint(call.op).path>>,
                       path |-> Endpoint(call.op).path,
                       data |-> Endpoint(call.op).data]>>
             /\ ResultOfRequest

C2_Witness ==
    /\ call.op = "unapprove"
    /\ PayloadOpen
    /\ Len(call.res.sent) = 1
    /\ call.res.sent[1].verb = "DELETE"
    /\ call.res.outcome = "returned"
    /\ call.res.value # [t |-> "None"]

\* C3 (as claimed): once decline() or merge() has returned normally on the
\* object, the object is no longer open.
C3_ClosedObjectIsNotOpen == closed => ~PayloadOpen

\* A guarded call whose arguments are valid
ValidCall == call.op \in GuardedOps /\ (call.op = "merge" => call.args[1] \in AcceptedStrategies)

\* C3 (amended): no method changes the object's payload: after decline() or
\* merge() has returned the object is still open, and every later guarded
\* call with valid arguments passes the open precondition and sends its one
\* request.
C3_ObjectStaysOpen ==
    /\ [](closed => PayloadOpen)
    /\ []((closed /\ ValidCall) => Len(call.res.sent) = 1)
    /\ [][pr' = pr]_vars

C3_Witness ==
    /\ closed
    /\ ncalls = 2
    /\ call.op = "unrequest_changes"
    /\ Len(call.res.sent) = 1
    /\ call.res.outcome = "returned"

\* C4 (as claimed): merge on an open pull request that carries its own
\* close_source_branch flag sends "close_source_branch" equal to the argument
\* when it is True or False, and equal to the pull request's own flag when
\* the argument is None.
C4_CloseSourceBranchArgumentWins ==
    (/\ call.op = "merge"
     /\ PayloadOpen
     /\ "close_source_branch" \in DOMAIN pr.data
     /\ Len(call.res.sent) = 1) =>
        call.res.sent[1].data.v.close_source_branch =
            IF call.args[2] = [t |-> "None"]
            THEN pr.data["close_source_branch"]
            ELSE call.args[2]

\* C5: merge on an open pull request raises ValueError and sends nothing for
\* a strategy other than None, "merge_commit", "squash", "fast_forward"; for
\* an accepted strategy it sends one POST "merge" whose "merge_strategy" is
\* the strategy given.
C5_MergeStrategyValidated ==
    (call.op = "merge" /\ PayloadOpen) =>
        IF call.args[1] \in AcceptedStrategies
        THEN /\ Len(call.res.sent) = 1
             /\ call.res.sent[1].verb = "POST"
             /\ call.res.sent[1].path = "merge"
             /\ call.res.sent[1].data.v.merge_strategy = call.args[1]
        ELSE call.res = [outcome |-> "raised",
                         value |-> [t |-> "exc", v |-> "ValueError"],
                         sent |-> <<>>]

C5_Witness ==
    /\ call.op = "merge"
    /\ PayloadOpen
    /\ call.args[1] = [t |-> "str", v |-> "rebase"]
    /\ call.res.outcome = "raised"

\* The four flags as the last read returned them
Flag(name) == call.res.value.v[name].v

NumTrue == Cardinality({n \in {"is_open", "is_declined", "is_merged", "is_superseded"} : Flag(n)})

StateFlag ==
    "OPEN" :> "is_open" @@ "DECLINED" :> "is_declined" @@
    "MERGED" :> "is_merged" @@ "SUPERSEDED" :> "is_superseded"

FlagsMatchState ==
    call.op = "state" =>
        /\ call.res.outcome = "returned"
        /\ call.res.sent = <<>>
        /\ NumTrue <= 1
        /\ IF "state" \in DOMAIN pr.data /\ pr.data["state"].v \in DOMAIN StateFlag
           THEN NumTrue = 1 /\ Flag(StateFlag[pr.data["state"].v])
           ELSE NumTrue = 0

\* C8: at most one of is_open, is_declined, is_merged, is_superseded is True;
\* exactly one (the matching one) for the four documented states and none
\* for any other or missing state; reading them sends no request and leaves
\* the payload as it was.
C8_StatePredicatesExclusive ==
    /\ []FlagsMatchState
    /\ [][call'.op = "state" => pr' = pr]_vars

C8_Witness ==
    /\ call.op = "state"
    /\ "state" \in DOMAIN pr.data
    /\ pr.data["state"] = [t |-> "str", v |-> "SUPERSEDED"]
    /\ Flag("is_superseded")

-----------------------------------------------------------------------------
(* Properties of the PullRequests collection, checked under SpecPullRequests *)

\* The PullRequest object expected for a listed or served payload
Expected(item) ==
    [cls |-> "PullRequest",
     url |-> <<"repositories", "ws", "repo", "pullrequests", ToString(item["id"].v)>>,
     data |-> item]

C7_GetReturnsRequestedObject ==
    (call.op = "get" /\ call.reply.ok) =>
        /\ call.res.outcome = "returned"
        /\ IF "errors" \in DOMAIN call.reply.body
           THEN call.res.value = [t |-> "None"]
           ELSE call.res.value =
                    [cls |-> "PullRequest",
                     url |-> <<"repositories", "ws", "repo", "pullrequests",
                               IF call.args[1].t = "int"
                               THEN ToString(call.args[1].v) ELSE call.args[1].v>>,
                     data |-> call.reply.body]

C7_WitnessErrors ==
    /\ call.op = "get"
    /\ call.reply.ok
    /\ "errors" \in DOMAIN call.reply.body
    /\ call.res.outcome = "returned"
    /\ call.res.value = [t |-> "None"]

C7_Witness ==
    /\ call.op = "get"
    /\ call.args[1] = [t |-> "str", v |-> "2"]
    /\ call.res.outcome = "returned"
    /\ "cls" \in DOMAIN call.res.value
    /\ call.res.value.data["id"].v = 2

====
